---- MODULE Spec2Model ----
(***************************************************************************)
(* cargo-ensure-installed: the decision whether `cargo install` has to be  *)
(* run for a package, taken from $CARGO_HOME/.crates.toml (src/main.rs).   *)
(*                                                                         *)
(* Strings are sequences of one-character strings, so that starts_with,    *)
(* split, Version::parse and VersionReq::parse are computed on characters. *)
(* A manifest text is a sequence of lines; a line is a table header, a     *)
(* `"key" = [..]` pair, or a line that is not TOML.                        *)
(***************************************************************************)
EXTENDS Integers, Sequences, FiniteSets, TLC

VARIABLES
    pc,            \* start, install, exited, panicked; called after a pair
    crates_toml,   \* the path $CARGO_HOME/.crates.toml
    package,       \* --package
    raw_version,   \* --version, as given
    want_version,  \* VersionReq::parse(raw_version)
    contents,      \* the text handed to should_install
    decision,      \* what should_install returned
    installs,      \* how many times `cargo install` was run
    status,        \* how `cargo install` ended
    result,        \* what main_impl returned
    exit_code,     \* the exit status of main
    other_path,    \* the second call of a pair: its path,
    other_contents,\*   its text,
    other_decision \*   and what should_install returned for it

vars == <<pc, crates_toml, package, raw_version, want_version, contents,
          decision, installs, status, result, exit_code,
          other_path, other_contents, other_decision>>

\* The longest manifest text, in lines, of a run of main.
MaxLines == 3

\* The longest manifest text, in lines, of a pair of calls.
MaxPairLines == 2

None == "none"

----------------------------------------------------------------------------
(* Strings *)

\* The byte of a character: String's Ord, the order of a BTreeMap's keys.
Code(c) ==
    CASE c = " " -> 32 [] c = "(" -> 40 [] c = ")" -> 41 [] c = "." -> 46
      [] c = "0" -> 48 [] c = "1" -> 49 [] c = "2" -> 50 [] c = "8" -> 56
      [] c = "9" -> 57 [] c = "=" -> 61 [] c = ">" -> 62 [] c = "^" -> 94
      [] c = "f" -> 102 [] c = "m" -> 109 [] c = "r" -> 114 [] c = "s" -> 115
      [] c = "t" -> 116 [] c = "u" -> 117 [] c = "v" -> 118 [] c = "x" -> 120

IsDigit(c) == c \in {"0", "1", "2", "8", "9"}

DigitVal(c) == Code(c) - 48

\* str::starts_with
StartsWith(s, prefix) ==
    /\ Len(prefix) <= Len(s)
    /\ SubSeq(s, 1, Len(prefix)) = prefix

\* str::split(sep).collect(): the components between the separators, empty
\* ones included; a string without the separator is its only component.
RECURSIVE Split(_, _)
Split(s, sep) ==
    IF \A i \in 1..Len(s) : s[i] # sep
    THEN <<s>>
    ELSE LET i == CHOOSE j \in 1..Len(s) :
                      s[j] = sep /\ \A k \in 1..(j - 1) : s[k] # sep
         IN  <<SubSeq(s, 1, i - 1)>> \o Split(SubSeq(s, i + 1, Len(s)), sep)

\* The order of String: byte by byte, a proper prefix first.
RECURSIVE StrLess(_, _)
StrLess(a, b) ==
    IF b = <<>> THEN FALSE
    ELSE IF a = <<>> THEN TRUE
    ELSE IF Code(a[1]) # Code(b[1]) THEN Code(a[1]) < Code(b[1])
    ELSE StrLess(Tail(a), Tail(b))

----------------------------------------------------------------------------
(* semver *)

\* The value of a string of digits.
RECURSIVE Decimal(_)
Decimal(s) ==
    IF Len(s) = 1 THEN DigitVal(s[1])
    ELSE 10 * Decimal(SubSeq(s, 1, Len(s) - 1)) + DigitVal(s[Len(s)])

\* A numeric identifier: digits, and no leading zero before others.
IsNumeric(s) ==
    /\ s # <<>>
    /\ \A i \in 1..Len(s) : IsDigit(s[i])
    /\ (Len(s) > 1 => s[1] # "0")

\* Version::parse on major.minor.patch.
VersionParse(s) ==
    LET f == Split(s, ".")
    IN  IF Len(f) = 3 /\ \A i \in 1..3 : IsNumeric(f[i])
        THEN [ok |-> TRUE, major |-> Decimal(f[1]), minor |-> Decimal(f[2]),
              patch |-> Decimal(f[3])]
        ELSE [ok |-> FALSE]

\* VersionReq::parse on one comparator: an operator, none meaning ^, and
\* major.minor.patch.
VersionReqParse(s) ==
    LET op == IF StartsWith(s, <<">", "=">>) THEN ">="
              ELSE IF StartsWith(s, <<"^">>) THEN "^"
              ELSE IF StartsWith(s, <<"=">>) THEN "="
              ELSE ""
        rest == SubSeq(s, Len(op) + 1, Len(s))
        v == VersionParse(rest)
    IN  IF v.ok
        THEN [ok |-> TRUE, op |-> IF op = "" THEN "^" ELSE op,
              major |-> v.major, minor |-> v.minor, patch |-> v.patch]
        ELSE [ok |-> FALSE]

\* Version's order on major.minor.patch.
VersionLeq(a, b) ==
    \/ a.major < b.major
    \/ a.major = b.major /\ a.minor < b.minor
    \/ a.major = b.major /\ a.minor = b.minor /\ a.patch <= b.patch

\* VersionReq::matches with ^ holding the major version alone, also when it
\* is zero.
MatchesMajorOnly(req, v) ==
    CASE req.op = "=" ->
            v.major = req.major /\ v.minor = req.minor /\ v.patch = req.patch
      [] req.op = ">=" -> VersionLeq(req, v)
      [] req.op = "^" -> v.major = req.major /\ VersionLeq(req, v)

\* VersionReq::matches.
Matches(req, v) ==
    CASE req.op = "=" ->
            v.major = req.major /\ v.minor = req.minor /\ v.patch = req.patch
      [] req.op = ">=" -> VersionLeq(req, v)
      [] req.op = "^" ->
            IF req.major > 0
            THEN v.major = req.major /\ VersionLeq(req, v)
            ELSE IF req.minor > 0
            THEN v.major = 0 /\ v.minor = req.minor /\ v.patch >= req.patch
            ELSE v.major = 0 /\ v.minor = 0 /\ v.patch = req.patch

----------------------------------------------------------------------------
(* Results *)

Ok(v) == [tag |-> "Ok", val |-> v]
Err(e) == [tag |-> "Err", val |-> e]
Panic == [tag |-> "Panic", val |-> None]
NoResult == [tag |-> "None", val |-> None]

\* The messages of should_install, by their parts.
Message(what, path, raw) == [what |-> what, path |-> path, raw |-> raw]

----------------------------------------------------------------------------
(* toml *)

V1 == <<"v", "1">>
V2 == <<"v", "2">>

Header(name) == [type |-> "header", key |-> name, val |-> None]
Pair(key, val) == [type |-> "pair", key |-> key, val |-> val]
Junk == [type |-> "junk", key |-> <<>>, val |-> None]

Table(entries) == [type |-> "table", entries |-> entries]
Array(items) == [type |-> "array", entries |-> items]

EmptyTable == [k \in {} |-> None]

\* Before the first header the pairs belong to the top-level table.
NoSection == <<>>

\* str::parse::<Value>: the document's top-level table, or an error. A header
\* opens a table that must not exist yet; a pair defines a key, which must be
\* new, in the table of the last header, or in the top-level table before any.
RECURSIVE TomlLines(_, _, _)
TomlLines(lines, top, section) ==
    IF lines = <<>> THEN [ok |-> TRUE, top |-> top]
    ELSE LET l == Head(lines) IN
         CASE l.type = "junk" -> [ok |-> FALSE, top |-> EmptyTable]
           [] l.type = "header" ->
                IF l.key \in DOMAIN top
                THEN [ok |-> FALSE, top |-> EmptyTable]
                ELSE TomlLines(Tail(lines),
                               (l.key :> Table(EmptyTable)) @@ top, l.key)
           [] l.type = "pair" ->
                IF section = NoSection
                THEN IF l.key \in DOMAIN top
                     THEN [ok |-> FALSE, top |-> EmptyTable]
                     ELSE TomlLines(Tail(lines),
                                    (l.key :> Array(l.val)) @@ top, section)
                ELSE IF l.key \in DOMAIN top[section].entries
                     THEN [ok |-> FALSE, top |-> EmptyTable]
                     ELSE TomlLines(Tail(lines),
                            (section :> Table((l.key :> Array(l.val))
                                              @@ top[section].entries)) @@ top,
                            section)

TomlParse(text) == TomlLines(text, EmptyTable, NoSection)

----------------------------------------------------------------------------
(* should_install *)

\* The empty text is parsed like any other.
ContentsNeverEmpty(text) == FALSE

ContentsEmpty(text) == Len(text) = 0

ParseError(path) == Err(Message("parse", path, None))

\* No section: nothing is installed.
MissingSectionAsEmpty(path) == Ok(TRUE)

MissingSection(path) == Err(Message("missing v1", path, None))

NotATable(path) == Err(Message("v1 not a table", path, None))

\* A version that is none: the package counts as not installed.
InvalidVersionAsAbsent(path, raw) == Ok(TRUE)

InvalidVersion(path, raw) == Err(Message("invalid version", path, raw))

\* Only the keys of the entries that list "a".
TableKeysListing(table) == {k \in DOMAIN table : table[k].entries = "a"}

TableKeys(table) == DOMAIN table

\* The prefix without the space.
KeyMatchesName(k, pkg) == StartsWith(k, pkg)

\* The first component is the package.
KeyMatchesComponent(k, pkg) == Split(k, " ")[1] = pkg

KeyMatches(k, pkg) == StartsWith(k, pkg \o <<" ">>)

\* table.keys().find(..): the first key, in the order of the keys, that
\* matches; None when no key does.
Find(table, pkg) ==
    LET m == {k \in TableKeys(table) : KeyMatches(k, pkg)}
    IN  IF m = {} THEN [found |-> FALSE, line |-> <<>>]
        ELSE [found |-> TRUE,
              line |-> CHOOSE k \in m : \A j \in m : j = k \/ StrLess(k, j)]

\* No key: nothing to do.
NotInstalledSkips == Ok(FALSE)

NotInstalled == Ok(TRUE)

\* The negation left out.
VerdictNotNegated(want, have) == Ok(Matches(want, have))

Verdict(want, have) == Ok(~Matches(want, have))

Installed(path, line, want) ==
    LET parts == Split(line, " ")
    IN  IF Len(parts) < 2 THEN Panic
        ELSE LET have == VersionParse(parts[2])
             IN  IF ~have.ok THEN InvalidVersion(path, parts[2])
                 ELSE Verdict(want, have)

should_install(path, text, pkg, want) ==
    IF ContentsEmpty(text) THEN Ok(TRUE)
    ELSE LET value == TomlParse(text) IN
         IF ~value.ok THEN ParseError(path)
         ELSE IF V1 \notin DOMAIN value.top THEN MissingSection(path)
         ELSE IF value.top[V1].type # "table" THEN NotATable(path)
         ELSE LET installed == Find(value.top[V1].entries, pkg)
              IN  IF installed.found
                  THEN Installed(path, installed.line, want)
                  ELSE NotInstalled

----------------------------------------------------------------------------
(* The inputs *)

Rustfmt == <<"r", "u", "s", "t", "f", "m", "t">>
Rustfmt2 == Rustfmt \o <<"2">>

Packages == {Rustfmt, Rustfmt2}

\* "<name> <version> (<source>)"
Key(name, version) == name \o <<" ">> \o version \o <<" ", "(", "s", ")">>

Versions ==
    { <<"0", ".", "9", ".", "0">>, <<"0", ".", "9", ".", "1">>,
      <<"0", ".", "1", "0", ".", "0">>, <<"0", ".", "8", ".", "0">>,
      <<"0", ".", "0", ".", "9">>, <<"0", ".", "0", ".", "1", "0">> }

\* The keys of the pairs: a package at each version, another package whose
\* name begins with the first one's, a name alone, a version that is none,
\* and two spaces before the version.
Keys ==
    {Key(Rustfmt, v) : v \in Versions}
    \cup { Key(Rustfmt2, <<"0", ".", "9", ".", "0">>),
           Rustfmt,
           Key(Rustfmt, <<"x">>),
           Key(Rustfmt \o <<" ">>, <<"0", ".", "9", ".", "0">>),
           V1 }

Lines == {Header(V1), Header(V2), Junk} \cup {Pair(k, "a") : k \in Keys}

Texts(n) == UNION {[1..k -> Lines] : k \in 0..n}

RawVersions ==
    { <<"0", ".", "9", ".", "0">>, <<"^", "0", ".", "0", ".", "9">>,
      <<">", "=", "0", ".", "9", ".", "0">>, <<"x">> }

CargoHomes == {"/home/a/.cargo"}

\* PathBuf::from(cargo_home).join(".crates.toml")
Join(cargo_home) == <<cargo_home, ".crates.toml">>

----------------------------------------------------------------------------
(* main *)

Init ==
    /\ pc = "start"
    /\ crates_toml = None
    /\ package = <<>>
    /\ raw_version = <<>>
    /\ want_version = [ok |-> FALSE]
    /\ contents = <<>>
    /\ decision = NoResult
    /\ installs = 0
    /\ status = None
    /\ result = NoResult
    /\ exit_code = None
    /\ other_path = None
    /\ other_contents = <<>>
    /\ other_decision = NoResult

\* main: Ok(()) ends the process with status 0, Err(err) with exit(1).
Exit(r) ==
    /\ pc' = "exited"
    /\ result' = r
    /\ exit_code' = IF r.tag = "Ok" THEN 0 ELSE 1

\* expect("CARGO_HOME environment variable was not set")
NoCargoHome ==
    /\ pc = "start"
    /\ pc' = "panicked"
    /\ UNCHANGED <<crates_toml, package, raw_version, want_version, contents,
                   decision, installs, status, result, exit_code,
                   other_path, other_contents, other_decision>>

\* flags.parse fails: an option is missing or unknown.
BadFlags ==
    /\ pc = "start"
    /\ \E home \in CargoHomes : crates_toml' = Join(home)
    /\ Exit(Err("flags"))
    /\ UNCHANGED <<package, raw_version, want_version, contents, decision,
                   installs, status, other_path, other_contents,
                   other_decision>>

\* VersionReq::parse fails.
BadVersion ==
    /\ pc = "start"
    /\ \E home \in CargoHomes, p \in Packages, v \in RawVersions :
          /\ ~VersionReqParse(v).ok
          /\ crates_toml' = Join(home)
          /\ package' = p
          /\ raw_version' = v
    /\ Exit(Err("invalid version"))
    /\ UNCHANGED <<want_version, contents, decision, installs, status,
                   other_path, other_contents, other_decision>>

\* The file exists and read_file_to_string fails.
ReadFailed ==
    /\ pc = "start"
    /\ \E home \in CargoHomes, p \in Packages, v \in RawVersions :
          /\ VersionReqParse(v).ok
          /\ crates_toml' = Join(home)
          /\ package' = p
          /\ raw_version' = v
          /\ want_version' = VersionReqParse(v)
    /\ Exit(Err("read"))
    /\ UNCHANGED <<contents, decision, installs, status, other_path,
                   other_contents, other_decision>>

\* cargo install is run whatever the boolean.
DecidedAlwaysInstalls(d) ==
    IF d.tag = "Panic"
    THEN pc' = "panicked" /\ UNCHANGED <<result, exit_code>>
    ELSE IF d.tag = "Err" THEN Exit(d)
    ELSE pc' = "install" /\ UNCHANGED <<result, exit_code>>

\* What main_impl does with what should_install returned.
Decided(d) ==
    IF d.tag = "Panic"
    THEN pc' = "panicked" /\ UNCHANGED <<result, exit_code>>
    ELSE IF d.tag = "Err" THEN Exit(d)
    ELSE IF d.val THEN pc' = "install" /\ UNCHANGED <<result, exit_code>>
    ELSE Exit(Ok(None))

\* The file is read, or does not exist, and should_install is called.
Decide ==
    /\ pc = "start"
    /\ \E home \in CargoHomes, p \in Packages, v \in RawVersions,
          exists \in BOOLEAN :
          \E text \in IF exists THEN Texts(MaxLines) ELSE {<<>>} :
              /\ VersionReqParse(v).ok
              /\ crates_toml' = Join(home)
              /\ package' = p
              /\ raw_version' = v
              /\ want_version' = VersionReqParse(v)
              /\ contents' = text
              /\ decision' = should_install(Join(home), text, p,
                                            VersionReqParse(v))
    /\ Decided(decision')
    /\ UNCHANGED <<installs, status, other_path, other_contents,
                   other_decision>>

\* Command::new("cargo")...status().unwrap(): cargo cannot be started, or it
\* ends with or without success.
Install ==
    /\ pc = "install"
    /\ installs' = installs + 1
    /\ \E s \in {"not started", "success", "failure"} :
          /\ status' = s
          /\ CASE s = "not started" ->
                    pc' = "panicked" /\ UNCHANGED <<result, exit_code>>
               [] s = "success" -> Exit(Ok(None))
               [] s = "failure" -> Exit(Err("cargo install"))
    /\ UNCHANGED <<crates_toml, package, raw_version, want_version, contents,
                   decision, other_path, other_contents, other_decision>>

Next == NoCargoHome \/ BadFlags \/ BadVersion \/ ReadFailed \/ Decide \/ Install

Spec == Init /\ [][Next]_vars

----------------------------------------------------------------------------
(* Two calls of should_install on the same keys *)

\* The paths of the calls: the one of main and the one of the tests.
Paths == {Join(h) : h \in CargoHomes} \cup {<<"/path/to", ".crates.toml">>}

\* The text with the pairs at the lines of `at` listing "b".
Relisted(text, at) ==
    [i \in 1..Len(text) |->
        IF i \in at THEN Pair(text[i].key, "b") ELSE text[i]]

CallTwice ==
    /\ pc = "start"
    /\ \E text \in Texts(MaxPairLines), p \in Packages, v \in RawVersions,
          path \in Paths, other \in Paths :
          \E at \in SUBSET {i \in 1..Len(text) : text[i].type = "pair"} :
              /\ VersionReqParse(v).ok
              /\ path # other
              /\ crates_toml' = path
              /\ other_path' = other
              /\ package' = p
              /\ raw_version' = v
              /\ want_version' = VersionReqParse(v)
              /\ contents' = text
              /\ other_contents' = Relisted(text, at)
              /\ decision' = should_install(path, text, p, VersionReqParse(v))
              /\ other_decision' = should_install(other, Relisted(text, at), p,
                                                  VersionReqParse(v))
    /\ pc' = "called"
    /\ UNCHANGED <<installs, status, result, exit_code>>

NextPair == CallTwice

SpecPair == Init /\ [][NextPair]_vars

----------------------------------------------------------------------------
(* The properties *)

Called == decision.tag # "None"

IsOk(d, b) == d.tag = "Ok" /\ d.val = b

Doc == TomlParse(contents)

HasV1Table ==
    /\ contents # <<>>
    /\ Doc.ok
    /\ V1 \in DOMAIN Doc.top
    /\ Doc.top[V1].type = "table"

V1Keys == DOMAIN Doc.top[V1].entries

\* The keys that begin with "<package> ".
Matching == {k \in V1Keys : StartsWith(k, package \o <<" ">>)}

\* The first of them in the order of the table.
FirstMatching(k) ==
    k \in Matching /\ \A j \in Matching : j = k \/ StrLess(k, j)

VersionField(k) == Split(k, " ")[2]

\* C1, as stated: whenever the v1 table has a key that begins with
\* "<package> " and whose second field is a version V, should_install
\* returns Ok(not R.matches(V)).
C1_AnyMatchingKeyDecides ==
    (Called /\ HasV1Table) =>
        \A k \in Matching :
            VersionParse(VersionField(k)).ok =>
                IsOk(decision,
                     ~Matches(want_version, VersionParse(VersionField(k))))

\* C1, amended: when the first key, in the order of the table, that begins
\* with "<package> " has a version V as its second field, should_install
\* returns Ok(not R.matches(V)).
C1_FirstMatchingKeyDecides ==
    (Called /\ HasV1Table) =>
        \A k \in Matching :
            (FirstMatching(k) /\ VersionParse(VersionField(k)).ok) =>
                IsOk(decision,
                     ~Matches(want_version, VersionParse(VersionField(k))))

C1_Witness ==
    /\ Called /\ HasV1Table
    /\ Cardinality(Matching) = 2
    /\ \E k \in Matching :
          /\ FirstMatching(k)
          /\ VersionParse(VersionField(k)).ok
          /\ Matches(want_version, VersionParse(VersionField(k)))
    /\ IsOk(decision, FALSE)

\* C2: an empty text gives Ok(true), whatever the package and the
\* requirement, and no error of the structure.
C2_EmptyTextInstalls ==
    (Called /\ Len(contents) = 0) => IsOk(decision, TRUE)

C2_Witness ==
    /\ Called /\ Len(contents) = 0
    /\ package = Rustfmt2
    /\ want_version.op = ">="
    /\ IsOk(decision, TRUE)

\* C3: a text that is a document without a v1 section, or whose v1 is not a
\* table, gives an error and no decision.
C3_NoSectionIsAnError ==
    (Called /\ contents # <<>> /\ Doc.ok) =>
        /\ V1 \notin DOMAIN Doc.top =>
              decision.tag = "Err" /\ decision.val.what = "missing v1"
        /\ (V1 \in DOMAIN Doc.top /\ Doc.top[V1].type # "table") =>
              decision.tag = "Err" /\ decision.val.what = "v1 not a table"

C3_Witness ==
    /\ Called /\ contents # <<>> /\ Doc.ok
    /\ V1 \notin DOMAIN Doc.top
    /\ V2 \in DOMAIN Doc.top
    /\ decision.tag = "Err"

\* C4: when no key of the v1 table begins with "<package> ", should_install
\* returns Ok(true), also when the table is empty or holds a package whose
\* name begins with the requested one.
C4_AbsentPackageInstalls ==
    (Called /\ HasV1Table /\ Matching = {}) => IsOk(decision, TRUE)

C4_Witness ==
    /\ Called /\ HasV1Table
    /\ package = Rustfmt
    /\ V1Keys = {Key(Rustfmt2, <<"0", ".", "9", ".", "0">>)}
    /\ raw_version = <<"0", ".", "9", ".", "0">>
    /\ IsOk(decision, TRUE)

\* A requirement, an installed version, and whether to install.
CaretCases ==
    { << <<"0", ".", "9", ".", "0">>, <<"0", ".", "9", ".", "0">>, FALSE >>,
      << <<"0", ".", "9", ".", "0">>, <<"0", ".", "9", ".", "1">>, FALSE >>,
      << <<"0", ".", "9", ".", "0">>, <<"0", ".", "1", "0", ".", "0">>, TRUE >>,
      << <<"0", ".", "9", ".", "0">>, <<"0", ".", "8", ".", "0">>, TRUE >>,
      << <<"^", "0", ".", "0", ".", "9">>, <<"0", ".", "0", ".", "9">>, FALSE >>,
      << <<"^", "0", ".", "0", ".", "9">>, <<"0", ".", "0", ".", "1", "0">>,
         TRUE >> }

\* C5: for rustfmt, requirement 0.9.0 is met by 0.9.0 and 0.9.1 and not by
\* 0.10.0 and 0.8.0; requirement ^0.0.9 is met by 0.0.9 and not by 0.0.10.
C5_CaretWithLeadingZeros ==
    (Called /\ HasV1Table /\ package = Rustfmt) =>
        \A c \in CaretCases :
            (raw_version = c[1] /\ Matching = {Key(Rustfmt, c[2])}) =>
                IsOk(decision, c[3])

C5_Witness ==
    /\ Called /\ HasV1Table /\ package = Rustfmt
    /\ raw_version = <<"0", ".", "9", ".", "0">>
    /\ Matching = {Key(Rustfmt, <<"0", ".", "1", "0", ".", "0">>)}
    /\ IsOk(decision, TRUE)

\* C6: when the second field of the key found is no version, should_install
\* returns an error that carries that field and the path.
C6_InvalidVersionIsAnError ==
    (Called /\ HasV1Table) =>
        \A k \in Matching :
            (FirstMatching(k) /\ ~VersionParse(VersionField(k)).ok) =>
                /\ decision.tag = "Err"
                /\ decision.val.what = "invalid version"
                /\ decision.val.raw = VersionField(k)
                /\ decision.val.path = crates_toml

C6_Witness ==
    /\ Called /\ HasV1Table
    /\ \E k \in Matching : FirstMatching(k) /\ VersionField(k) = <<"x">>
    /\ decision.tag = "Err"

\* The keys whose first component is the package and that have no second.
NameOnly ==
    {k \in V1Keys : Split(k, " ")[1] = package /\ Len(Split(k, " ")) < 2}

\* C7, as stated: a key that is the package name alone gives an error of a
\* malformed entry.
C7_NameAloneIsAnError ==
    (Called /\ HasV1Table /\ NameOnly # {}) =>
        decision.tag = "Err" /\ decision.val.what = "malformed entry"

\* C7, amended: a key that is the package name alone is not the key found:
\* should_install returns Ok(true) when no key begins with "<package> ", and
\* what the first such key gives otherwise, the only error being that of a
\* version that is none.
C7_NameAloneIsPassedOver ==
    (Called /\ HasV1Table /\ NameOnly # {}) =>
        /\ decision.tag \in {"Ok", "Err"}
        /\ Matching = {} => IsOk(decision, TRUE)
        /\ decision.tag = "Err" =>
              /\ decision.val.what = "invalid version"
              /\ \E k \in Matching : FirstMatching(k)
                                     /\ decision.val.raw = VersionField(k)
        /\ decision.tag = "Ok" =>
              \A k \in Matching : FirstMatching(k) =>
                  /\ VersionParse(VersionField(k)).ok
                  /\ decision.val
                       = ~Matches(want_version, VersionParse(VersionField(k)))

C7_Witness ==
    /\ Called /\ HasV1Table
    /\ V1Keys = {package}
    /\ IsOk(decision, TRUE)

\* C8: two calls for the same package and requirement, on texts with the same
\* keys and other values, under two paths, return the same boolean or both
\* an error, of the same kind, each with its own path.
C8_SameKeysSameOutcome ==
    pc = "called" =>
        /\ decision.tag = other_decision.tag
        /\ decision.tag = "Ok" => decision.val = other_decision.val
        /\ decision.tag = "Err" =>
              /\ decision.val.what = other_decision.val.what
              /\ decision.val.raw = other_decision.val.raw
              /\ decision.val.path = crates_toml
              /\ other_decision.val.path = other_path

C8_Witness ==
    /\ pc = "called"
    /\ HasV1Table
    /\ other_contents # contents
    /\ crates_toml # other_path
    /\ IsOk(decision, FALSE)
    /\ IsOk(other_decision, FALSE)

Ended == pc \in {"exited", "panicked"}

\* C9: cargo install is run at most once, and exactly when should_install
\* returned Ok(true); an error of the decision, or cargo install failing,
\* ends the run with an error; a run that ended takes no further step.
C9_InstallOnceIffDecided ==
    /\ installs <= 1
    /\ installs = 1 => IsOk(decision, TRUE)
    /\ (Ended /\ IsOk(decision, TRUE)) => installs = 1
    /\ decision.tag = "Err" =>
          /\ pc = "exited"
          /\ result.tag = "Err" /\ result.val = decision.val
          /\ exit_code = 1
    /\ status = "failure" =>
          pc = "exited" /\ result.tag = "Err" /\ exit_code = 1
    /\ Ended => ~ENABLED Next

C9_Witness ==
    /\ pc = "exited"
    /\ installs = 1
    /\ status = "failure"
    /\ exit_code = 1

\* C10: every key that begins with "<package> " has two components or more,
\* so should_install returns Ok or Err and never panics.
C10_NoPanic ==
    Called =>
        /\ decision.tag \in {"Ok", "Err"}
        /\ HasV1Table => \A k \in Matching : Len(Split(k, " ")) >= 2

C10_Witness ==
    /\ Called /\ HasV1Table
    /\ package \in V1Keys
    /\ Key(package \o <<" ">>, <<"0", ".", "9", ".", "0">>) \in V1Keys
    /\ Cardinality(V1Keys) = 2
    /\ decision.tag = "Err"

====
